---- MODULE Spec2Model ----
(***************************************************************************)
(* Model of src/server.py: a Flask backend with three POST endpoints       *)
(* (/calculate, /text, /support) that forward text to a generation         *)
(* provider and, for /support, look an order up at an order provider.      *)
(*                                                                         *)
(* Text is modelled as a sequence of one-character strings, so that the    *)
(* regular expression of line 193 and the substring tests of lines         *)
(* 198-199 are computed character by character.  JSON values are tagged    *)
(* records [t |-> kind, v |-> value].  A handler is split where it blocks  *)
(* on an outbound HTTP call; the provider's answer is an input of the      *)
(* step that resumes it.                                                   *)
(***************************************************************************)
EXTENDS Integers, Sequences, FiniteSets, TLC

\* ------------------------------------------------------------ characters

LowerCase == <<"a","b","c","d","e","f","g","h","i","j","k","l","m","n","o","p","q","r","s","t","u","v","w","x","y","z">>
UpperCase == <<"A","B","C","D","E","F","G","H","I","J","K","L","M","N","O","P","Q","R","S","T","U","V","W","X","Y","Z">>
Digits == {"0","1","2","3","4","5","6","7","8","9"}

\* str.isdigit / \d restricted to ASCII
IsDigit(c) == c \in Digits

\* \w restricted to ASCII: letters, digits, underscore
IsWord(c) ==
    \/ c \in Digits
    \/ c = "_"
    \/ \E i \in 1..26 : c = LowerCase[i] \/ c = UpperCase[i]

LowerChar(c) ==
    IF \E i \in 1..26 : c = UpperCase[i]
    THEN LowerCase[CHOOSE i \in 1..26 : c = UpperCase[i]]
    ELSE c

\* str.lower()
Lower(s) == [i \in 1..Len(s) |-> LowerChar(s[i])]

\* Python's `sub in s` for strings
Contains(s, sub) ==
    \E i \in 0..(Len(s) - Len(sub)) : SubSeq(s, i + 1, i + Len(sub)) = sub

IsSpace(c) == c = " "

RECURSIVE LStrip(_)
LStrip(s) == IF s # <<>> /\ IsSpace(Head(s)) THEN LStrip(Tail(s)) ELSE s

RECURSIVE RStrip(_)
RStrip(s) ==
    IF s # <<>> /\ IsSpace(s[Len(s)]) THEN RStrip(SubSeq(s, 1, Len(s) - 1)) ELSE s

\* str.strip()
Strip(s) == RStrip(LStrip(s))

\* ------------------------------------------------------------ keywords and inputs

KwSummary == <<"s","u","m","m","a","r","y">>
KwCancellationReason == <<"c","a","n","c","e","l","l","a","t","i","o","n"," ","r","e","a","s","o","n">>

\* The pieces request texts are built from: a 7-digit run, a 6-digit run, a
\* second run of 8 other digits, a space, a greeting, and the two intent
\* keywords in mixed case behind a space.
ChunkD7 == <<"1","2","3","4","5","6","7">>
ChunkD6 == <<"8","9","0","1","2","3">>
ChunkD8 == <<"7","6","5","4","3","2","1","0">>
ChunkSpace == <<" ">>
ChunkHi == <<"h","i">>
ChunkSummary == <<" ","S","u","m","m","a","r","y">>
ChunkCancel == <<" ","C","a","n","c","e","l","l","a","t","i","o","n"," ","R","e","a","s","o","n">>
Chunks == {ChunkD7, ChunkD6, ChunkD8, ChunkSpace, ChunkHi, ChunkSummary, ChunkCancel}

\* Scenario A of the specification
ScenarioA == <<"W","h","a","t"," ","i","s"," ","m","y"," ","c","a","n","c","e","l","l","a","t","i","o","n"," ","r","e","a","s","o","n"," ","f","o","r"," ","o","r","d","e","r"," ","1","2","3","4","5","6","7","?">>

\* Upper bound on the number of chunks in a request text
MaxChunks == 3

RECURSIVE Flatten(_)
Flatten(cs) == IF cs = <<>> THEN <<>> ELSE Head(cs) \o Flatten(Tail(cs))

ChunkSeqs == UNION {[1..n -> Chunks] : n \in 0..MaxChunks}

\* The request texts: every concatenation of at most MaxChunks chunks, and Scenario A
Texts == {Flatten(cs) : cs \in ChunkSeqs} \cup {ScenarioA}

\* ------------------------------------------------------------ values

\* Python / JSON values, tagged.  "str" holds a character sequence, "lit" a
\* string that the program only compares and copies.
PyNone == [t |-> "None"]
Str(s) == [t |-> "str", v |-> s]
Lit(s) == [t |-> "lit", v |-> s]
Num(n) == [t |-> "num", v |-> n]
Arr(a) == [t |-> "list", v |-> a]
Obj(d) == [t |-> "dict", v |-> d]
\* an f-string: a fixed template with the interpolated values
Fmt(template, args) == [t |-> "fstr", template |-> template, args |-> args]
\* the HTML error page Flask/werkzeug sends for an exception no handler catches
Html(s) == [t |-> "html", v |-> s]

EmptyDict == <<>>

\* Python truthiness (`if x:` / `not x`)
Truthy(x) ==
    CASE x.t = "None" -> FALSE
      [] x.t = "str"  -> x.v # <<>>
      [] x.t = "lit"  -> x.v # ""
      [] x.t = "num"  -> x.v # 0
      [] x.t = "list" -> x.v # <<>>
      [] x.t = "dict" -> DOMAIN x.v # {}
      [] OTHER        -> TRUE

IsDict(x) == x.t = "dict"

\* dict.get(key, default)
Get(d, key, default) == IF key \in DOMAIN d.v THEN d.v[key] ELSE default

\* `key in d` for a dict
HasKey(d, key) == key \in DOMAIN d.v

\* a Flask response: jsonify(body), status
Response(status, body) == [status |-> status, body |-> body]
JsonError(status, msg) == Response(status, Obj("error" :> Lit(msg)))

\* an exception that no handler catches: Flask answers 500 with its error page
Unhandled(exc) == Response(500, Html(exc))

\* ------------------------------------------------------------ configuration

\* values of the APOLLO247_AUTH_TOKEN environment variable (line 22)
Tokens == {PyNone, Str(<<>>), Str(<<" ">>), Str(<<"t", "k">>), Str(<<"t", " ", "k">>)}

\* values of the GEMINI_API_KEY environment variable (line 21)
Keys == {PyNone, Str(<<"k">>)}

\* validate_auth_token(), lines 24-40, as a function of the token
validate_auth_token(token) ==
    IF ~Truthy(token) THEN FALSE
    ELSE LET cleaned_token == Strip(token.v)
         IN  ~(cleaned_token = <<>> \/ Contains(cleaned_token, <<" ">>))

\* ------------------------------------------------------------ order-ID extraction

\* the quantifier bound of \d{7,} (line 193)
MinDigits == 7

\* \b at position p of s (between s[p] and s[p+1])
WordBoundary(s, p) ==
    LET before == p >= 1 /\ IsWord(s[p])
        after  == p < Len(s) /\ IsWord(s[p + 1])
    IN  before # after

\* the greedy extent of \d* from index i: the last index of the digit run
RECURSIVE RunEnd(_, _)
RunEnd(s, i) == IF i <= Len(s) /\ IsDigit(s[i]) THEN RunEnd(s, i + 1) ELSE i - 1

\* variant: the pattern without its two \b, r'(\d{7,})'
MatchEnds_noboundary(s, i) == (i + MinDigits - 1)..RunEnd(s, i)

\* the ends j at which \b(\d{7,})\b matches when started at index i
MatchEnds(s, i) ==
    IF ~WordBoundary(s, i - 1) THEN {}
    ELSE {j \in (i + MinDigits - 1)..RunEnd(s, i) : WordBoundary(s, j)}

Max(S) == CHOOSE x \in S : \A y \in S : y <= x
Min(S) == CHOOSE x \in S : \A y \in S : x <= y

\* re.search(r'\b(\d{7,})\b', s) followed by match.group(1), lines 192-195:
\* the leftmost start that matches, and from it the longest match (greedy)
SearchOrderId(s) ==
    LET starts == {i \in 1..Len(s) : MatchEnds(s, i) # {}}
    IN  IF starts = {} THEN PyNone
        ELSE LET i == Min(starts)
             IN  Str(SubSeq(s, i, Max(MatchEnds(s, i))))

\* ------------------------------------------------------------ the providers' answers

\* What an outbound HTTP call can end in: no response (requests raises a
\* ConnectionError or Timeout), a 4xx/5xx response (raise_for_status raises
\* HTTPError), a 2xx response whose body is not JSON (response.json() raises;
\* the class raised is requests' own JSONDecodeError, a RequestException, or
\* json's, a ValueError, with the installed requests version), or a 2xx
\* response carrying a JSON value.
Failures ==
    {[kind |-> "ConnectionError"], [kind |-> "HTTPError"],
     [kind |-> "BadBody", cls |-> "RequestException"],
     [kind |-> "BadBody", cls |-> "ValueError"]}

Ok(j) == [kind |-> "ok", json |-> j]

OrderItem == Obj("name" :> Lit("Paracetamol") @@ "sku" :> Lit("PAR001"))

\* order records the provider marks as found, with the optional fields
FoundRecords ==
    {Obj(("code" :> Num(200)) @@ ("message" :> Lit("Data found.")) @@ cr @@ items) :
        cr \in {EmptyDict, "cancellationReason" :> PyNone,
                "cancellationReason" :> Lit("Customer requested")},
        items \in {EmptyDict, "orderItemDetails" :> Arr(<<OrderItem>>)}}

\* objects that fail the code test, the message test, or both
NotFoundRecords ==
    {Obj(code @@ message @@ ("cancellationReason" :> Lit("Customer requested"))) :
        code \in {EmptyDict, "code" :> Num(200), "code" :> Num(404)},
        message \in {EmptyDict, "message" :> Lit("Data found."),
                     "message" :> Lit("Order not found")}}
    \ {Obj(("code" :> Num(200)) @@ ("message" :> Lit("Data found."))
           @@ ("cancellationReason" :> Lit("Customer requested")))}

\* JSON bodies that are no non-empty object
OddPayloads == {PyNone, Obj(EmptyDict), Arr(<<>>), Arr(<<Num(1)>>)}

OrderOutcomes ==
    Failures \cup {Ok(j) : j \in FoundRecords \cup NotFoundRecords \cup OddPayloads}

Candidate(text) ==
    Obj("content" :> Obj("parts" :> Arr(<<Obj("text" :> Lit(text))>>)))

GeminiPayloads ==
    {PyNone, Arr(<<Num(1)>>), Obj(EmptyDict),
     Obj("candidates" :> Arr(<<>>)),
     Obj("candidates" :> PyNone),
     Obj("candidates" :> Arr(<<Obj(EmptyDict)>>)),
     Obj("candidates" :> Arr(<<Candidate(""), Candidate("first answer")>>)),
     Obj("candidates" :> Arr(<<Candidate("first answer"), Candidate("second answer")>>))}

GeminiOutcomes == Failures \cup {Ok(j) : j \in GeminiPayloads}

\* ------------------------------------------------------------ get_order_summary

\* lines 47-51: the token is stripped and the call is skipped when nothing is left
order_call_skipped(auth_token) ==
    LET cleaned_token == IF Truthy(auth_token) THEN Str(Strip(auth_token.v)) ELSE PyNone
    IN  ~Truthy(cleaned_token)

\* lines 58-71: the value get_order_summary returns for the call's outcome
get_order_summary(outcome) ==
    IF outcome.kind = "ok" THEN outcome.json ELSE PyNone

\* ------------------------------------------------------------ the generation call

\* the marker of a raised KeyError / IndexError / TypeError
Raised == [t |-> "raised"]

\* x[key] for a string key
SubKey(x, key) ==
    IF x.t = "dict" /\ key \in DOMAIN x.v THEN x.v[key] ELSE Raised

\* x[0], followed in the program by a string subscript
SubFirst(x) ==
    IF x.t = "list" /\ x.v # <<>> THEN x.v[1] ELSE Raised

\* response_data['candidates'][0]['content']['parts'][0]['text']
first_candidate_text(response_data) ==
    SubKey(SubFirst(SubKey(SubKey(SubFirst(SubKey(response_data, "candidates")),
                                  "content"), "parts")), "text")

UnexpectedMsg == "An unexpected error occurred"
InvalidFormatMsg == "Invalid response format from API"

\* variant: an answer without a usable candidate is returned as an empty result
gemini_reply_emptyok(outcome, failed_msg) ==
    IF outcome.kind = "ok" /\ outcome.json.t = "dict"
    THEN IF HasKey(outcome.json, "candidates")
            /\ first_candidate_text(outcome.json) # Raised
         THEN Response(200, Obj("result" :> first_candidate_text(outcome.json)))
         ELSE Response(200, Obj("result" :> Lit("")))
    ELSE JsonError(500, failed_msg)

\* The handling of the generation provider's answer, the same at its four
\* call sites (lines 107-123, 156-173, 278-290, 325-337) up to the message of
\* the RequestException handler.
gemini_reply(outcome, failed_msg) ==
    CASE outcome.kind \in {"ConnectionError", "HTTPError"} ->
            JsonError(500, failed_msg)
      [] outcome.kind = "BadBody" ->
            IF outcome.cls = "RequestException"
            THEN JsonError(500, failed_msg)
            ELSE JsonError(500, UnexpectedMsg)
      [] outcome.kind = "ok" ->
            LET response_data == outcome.json
            IN  CASE response_data.t = "dict" ->
                        IF HasKey(response_data, "candidates")
                           /\ Truthy(response_data.v["candidates"])
                        THEN LET text_response == first_candidate_text(response_data)
                             IN  IF text_response = Raised
                                 THEN JsonError(500, UnexpectedMsg)
                                 ELSE Response(200, Obj("result" :> text_response))
                        ELSE JsonError(500, InvalidFormatMsg)
                  [] response_data.t = "list" ->
                        \* 'candidates' in <list> is False for these lists
                        JsonError(500, InvalidFormatMsg)
                  [] OTHER ->
                        \* 'candidates' in None raises TypeError
                        JsonError(500, UnexpectedMsg)

\* ------------------------------------------------------------ /support

ConfigErrorMsg == "Apollo247 authentication token is not properly configured"
NoTextMsg == "No text provided"
NoKeyMsg == "Gemini API key not configured"
SupportFailedMsg == "Failed to process support request"

\* line 178: the request-time test of the token
token_rejected(token) == ~Truthy(token) \/ ~Truthy(Str(Strip(token.v)))

\* line 198: the value of asks_for_summary
detect_summary(user_query) == Contains(Lower(user_query.v), KwSummary)

\* line 199: the value of asks_for_cancellation_reason
detect_cancellation_reason(user_query) ==
    Contains(Lower(user_query.v), KwCancellationReason)

\* line 207
is_data_found(order_summary) ==
    /\ Get(order_summary, "code", PyNone) = Num(200)
    /\ Get(order_summary, "message", PyNone) = Lit("Data found.")

\* lines 293 and 297: the same f-string
not_found_message(order_id) ==
    Response(200, Obj("message" :> Fmt("I couldn't find details for order ID {order_id}. Please double-check the ID.", <<order_id>>)))

\* variant: the placeholder is returned whatever the record holds
cancellation_payload_placeholder(cancellation_reason, order_id) ==
    Response(200, Obj(("cancellationReason" :> Lit("N/A")) @@ ("orderId" :> order_id)))

\* line 217
cancellation_payload(cancellation_reason, order_id) ==
    Response(200, Obj(("cancellationReason" :> cancellation_reason) @@ ("orderId" :> order_id)))

\* lines 229-233: one item's lines; item.get raises AttributeError unless item is a dict
item_lines(item) ==
    IF ~IsDict(item) THEN Raised
    ELSE Fmt("* **{name}** (SKU: {sku}) Requested Quantity: {requestedQuantity} Approved Quantity: {approvedQuantity}",
             <<Get(item, "name", Lit("N/A")), Get(item, "sku", Lit("N/A")),
               Get(item, "requestedQuantity", Lit("N/A")),
               Get(item, "approvedQuantity", Lit("N/A"))>>)

\* lines 221-235: the order data formatted for the prompt
apollo_response(order_id, cancellation_reason, items) ==
    LET reason == IF cancellation_reason # PyNone THEN cancellation_reason ELSE Lit("None")
        lines  == IF Truthy(items)
                  THEN IF items.t = "list"
                       THEN [i \in 1..Len(items.v) |-> item_lines(items.v[i])]
                       ELSE <<Raised>>
                  ELSE <<Lit("* No items found for this order.")>>
    IN  IF \E i \in 1..Len(lines) : lines[i] = Raised THEN Raised
        ELSE Fmt("**Order ID:** {order_id} **Cancellation Reason:** {reason} **Items:** {lines}",
                 <<order_id, reason, Arr(lines)>>)

\* lines 240-256
order_prompt(user_query, order_info) ==
    Fmt("{system_instruction} Customer query: {user_query} Order Information: {apollo_response}",
        <<user_query, order_info>>)

\* lines 301-309
general_prompt(user_query) ==
    Fmt("{system_instruction} Customer query: {user_query}", <<user_query>>)

Respond(r) == [kind |-> "respond", response |-> r]
CallGemini(p) == [kind |-> "gemini", prompt |-> p]

\* variant: the cancellation-reason test comes before the summary test
found_branch_cancelfirst(user_query, order_id, order_summary, asks_summary, asks_cancellation) ==
    IF asks_cancellation
    THEN Respond(cancellation_payload(
             Get(order_summary, "cancellationReason", Lit("N/A")), order_id))
    ELSE IF asks_summary
    THEN Respond(Response(200, order_summary))
    ELSE LET info == apollo_response(order_id,
                         Get(order_summary, "cancellationReason", Lit("N/A")),
                         Get(order_summary, "orderItemDetails", Arr(<<>>)))
         IN  IF info = Raised
             THEN Respond(Unhandled("AttributeError"))
             ELSE CallGemini(order_prompt(user_query, info))

\* lines 208-276: what the handler does with a found record
found_branch(user_query, order_id, order_summary, asks_summary, asks_cancellation) ==
    IF asks_summary
    THEN Respond(Response(200, order_summary))
    ELSE LET cancellation_reason == Get(order_summary, "cancellationReason", Lit("N/A"))
         IN  IF asks_cancellation
             THEN Respond(cancellation_payload(cancellation_reason, order_id))
             ELSE LET items == Get(order_summary, "orderItemDetails", Arr(<<>>))
                      info  == apollo_response(order_id, cancellation_reason, items)
                  IN  IF info = Raised
                      THEN Respond(Unhandled("AttributeError"))
                      ELSE CallGemini(order_prompt(user_query, info))

\* variant: the record's code and message are not tested
after_order_summary_nocheck(user_query, order_id, order_summary, asks_summary, asks_cancellation) ==
    IF IsDict(order_summary)
    THEN found_branch(user_query, order_id, order_summary, asks_summary, asks_cancellation)
    ELSE Respond(not_found_message(order_id))

\* lines 206-297: the handler from the return of get_order_summary on
after_order_summary(user_query, order_id, order_summary, asks_summary, asks_cancellation) ==
    IF Truthy(order_summary)
    THEN IF ~IsDict(order_summary)
         THEN \* order_summary.get raises AttributeError, which nothing catches
              Respond(Unhandled("AttributeError"))
         ELSE IF is_data_found(order_summary)
              THEN found_branch(user_query, order_id, order_summary,
                                asks_summary, asks_cancellation)
              ELSE Respond(not_found_message(order_id))
    ELSE Respond(not_found_message(order_id))

\* the outcome of a handler step: kind is "respond", "order" (requests.get is
\* issued) or "gemini" (requests.post is issued)
Step(kind, resp, prompt, uq, oid) ==
    [kind |-> kind, response |-> resp, prompt |-> prompt, user_query |-> uq, order_id |-> oid,
     asks_for_summary |-> FALSE, asks_for_cancellation_reason |-> FALSE]

\* the step of a handler that has run lines 198-199
WithIntents(s, asks_summary, asks_cancellation) ==
    [s EXCEPT !.asks_for_summary = asks_summary,
              !.asks_for_cancellation_reason = asks_cancellation]

Return(resp, uq, oid) == Step("respond", resp, PyNone, uq, oid)

\* a request body that request.get_json() rejects (werkzeug answers 400)
NotJson == [t |-> "notjson"]

Continue(s, uq, oid) ==
    IF s.kind = "respond" THEN Return(s.response, uq, oid)
    ELSE Step("gemini", PyNone, s.prompt, uq, oid)

\* variant: the lookup is made for every text
has_order_id_always(order_id) == TRUE

\* line 202: `if order_id:`
has_order_id(order_id) == Truthy(order_id)

\* customer_support, lines 177-203 and 299-323: from the request to the first
\* outbound call or to an early return
support_entry(token, key, body) ==
    IF token_rejected(token)
    THEN Return(JsonError(500, ConfigErrorMsg), PyNone, PyNone)
    ELSE IF body = NotJson
    THEN Return(Response(400, Html("Bad Request")), PyNone, PyNone)
    ELSE IF ~IsDict(body)
    THEN Return(Unhandled("AttributeError"), PyNone, PyNone)
    ELSE LET user_query == Get(body, "text", PyNone)
         IN  IF ~Truthy(user_query)
             THEN Return(JsonError(400, NoTextMsg), user_query, PyNone)
             ELSE IF ~Truthy(key)
             THEN Return(JsonError(500, NoKeyMsg), user_query, PyNone)
             ELSE IF user_query.t # "str"
             THEN \* re.search raises TypeError on a value that is no string
                  Return(Unhandled("TypeError"), user_query, PyNone)
             ELSE LET order_id == SearchOrderId(user_query.v)
                      asks_summary == detect_summary(user_query)
                      asks_cancellation == detect_cancellation_reason(user_query)
                      s == IF has_order_id(order_id)
                           THEN IF order_call_skipped(token)
                                THEN Continue(after_order_summary(user_query, order_id, PyNone,
                                                  asks_summary, asks_cancellation),
                                              user_query, order_id)
                                ELSE Step("order", PyNone, PyNone, user_query, order_id)
                           ELSE Step("gemini", PyNone, general_prompt(user_query),
                                     user_query, order_id)
                  IN  WithIntents(s, asks_summary, asks_cancellation)

\* ------------------------------------------------------------ /calculate and /text

CalcFailedMsg == "Failed to calculate expression"
TextFailedMsg == "Failed to process text"
NoKeyMsgPlain == "API key not configured"

\* calculate, lines 78-101
calculate_entry(key, body) ==
    IF body = NotJson
    THEN Return(Response(400, Html("Bad Request")), PyNone, PyNone)
    ELSE IF ~IsDict(body)
    THEN Return(Unhandled("AttributeError"), PyNone, PyNone)
    ELSE LET expression == Get(body, "expression", PyNone)
         IN  IF ~Truthy(key)
             THEN Return(JsonError(500, NoKeyMsgPlain), expression, PyNone)
             ELSE Step("gemini", PyNone,
                       Fmt("Calculate this mathematical expression: {expression}",
                           <<expression>>),
                       expression, PyNone)

\* process_text, lines 126-150
text_entry(key, body) ==
    IF body = NotJson
    THEN Return(Response(400, Html("Bad Request")), PyNone, PyNone)
    ELSE IF ~IsDict(body)
    THEN Return(Unhandled("AttributeError"), PyNone, PyNone)
    ELSE LET text == Get(body, "text", PyNone)
         IN  IF ~Truthy(text)
             THEN Return(JsonError(400, NoTextMsg), text, PyNone)
             ELSE IF ~Truthy(key)
             THEN Return(JsonError(500, NoKeyMsgPlain), text, PyNone)
             ELSE Step("gemini", PyNone, text, text, PyNone)

\* the message of the RequestException handler around the generation call
failed_msg(r) ==
    CASE r = "/calculate" -> CalcFailedMsg
      [] r = "/text"      -> TextFailedMsg
      [] OTHER            -> SupportFailedMsg

\* ------------------------------------------------------------ request bodies

OddBodies ==
    {NotJson, PyNone, Arr(<<>>), Obj(EmptyDict), Obj("text" :> Str(<<>>)),
     Obj("text" :> Num(5))}

SupportBodies == OddBodies \cup {Obj("text" :> Str(t)) : t \in Texts}

TextBodies == OddBodies \cup {Obj("text" :> Str(ChunkHi)), Obj("text" :> Str(ScenarioA))}

CalculateBodies ==
    {NotJson, PyNone, Obj(EmptyDict), Obj("expression" :> Lit("1+1"))}

\* ------------------------------------------------------------ the state machine

VARIABLES
    APOLLO247_AUTH_TOKEN,  \* line 22, read once at start
    GEMINI_API_KEY,        \* line 21, read once at start
    pc,                    \* "idle", "order" (in requests.get), "gemini" (in requests.post), "done"
    route,                 \* the endpoint of the request being handled
    user_query,            \* the text (or expression) read from the body
    order_id,              \* lines 192-195
    asks_for_summary,      \* line 198
    asks_for_cancellation_reason,  \* line 199
    order_outcome,         \* how the order-provider call ended
    order_summary,         \* line 203
    gemini_prompt,         \* the text sent to the generation provider
    gemini_outcome,        \* how the generation-provider call ended
    response,              \* the response sent
    calls,                 \* the outbound calls issued for this request, in order
    responses              \* the number of responses sent for this request

config == <<APOLLO247_AUTH_TOKEN, GEMINI_API_KEY>>
vars == <<APOLLO247_AUTH_TOKEN, GEMINI_API_KEY, pc, route, user_query, order_id,
          asks_for_summary, asks_for_cancellation_reason,
          order_outcome, order_summary, gemini_prompt, gemini_outcome, response,
          calls, responses>>

NoOutcome == [kind |-> "none"]

Init ==
    /\ APOLLO247_AUTH_TOKEN \in Tokens
    /\ GEMINI_API_KEY \in Keys
    /\ pc = "idle"
    /\ route = "none"
    /\ user_query = PyNone
    /\ order_id = PyNone
    /\ asks_for_summary = FALSE
    /\ asks_for_cancellation_reason = FALSE
    /\ order_outcome = NoOutcome
    /\ order_summary = PyNone
    /\ gemini_prompt = PyNone
    /\ gemini_outcome = NoOutcome
    /\ response = PyNone
    /\ calls = <<>>
    /\ responses = 0

\* a request arrives and its handler runs to its first outbound call or return
Begin(r, body, s) ==
    /\ pc = "idle"
    /\ route' = r
    /\ user_query' = s.user_query
    /\ order_id' = s.order_id
    /\ asks_for_summary' = s.asks_for_summary
    /\ asks_for_cancellation_reason' = s.asks_for_cancellation_reason
    /\ order_outcome' = NoOutcome
    /\ order_summary' = PyNone
    /\ gemini_outcome' = NoOutcome
    /\ gemini_prompt' = s.prompt
    /\ response' = s.response
    /\ pc' = IF s.kind = "respond" THEN "done" ELSE s.kind
    /\ calls' = IF s.kind = "respond" THEN <<>> ELSE <<s.kind>>
    /\ responses' = IF s.kind = "respond" THEN 1 ELSE 0
    /\ UNCHANGED config

SupportRequest ==
    \E body \in SupportBodies :
        Begin("/support", body, support_entry(APOLLO247_AUTH_TOKEN, GEMINI_API_KEY, body))

CalculateRequest ==
    \E body \in CalculateBodies :
        Begin("/calculate", body, calculate_entry(GEMINI_API_KEY, body))

TextRequest ==
    \E body \in TextBodies :
        Begin("/text", body, text_entry(GEMINI_API_KEY, body))

\* requests.get returns or raises; get_order_summary returns; the handler runs
\* on to the generation call or to its return
OrderProviderReturns ==
    /\ pc = "order"
    /\ \E outcome \in OrderOutcomes :
        LET summary == get_order_summary(outcome)
            s == after_order_summary(user_query, order_id, summary,
                                     asks_for_summary, asks_for_cancellation_reason)
        IN  /\ order_outcome' = outcome
            /\ order_summary' = summary
            /\ pc' = IF s.kind = "respond" THEN "done" ELSE "gemini"
            /\ response' = IF s.kind = "respond" THEN s.response ELSE PyNone
            /\ gemini_prompt' = IF s.kind = "gemini" THEN s.prompt ELSE PyNone
            /\ calls' = IF s.kind = "gemini" THEN Append(calls, "gemini") ELSE calls
            /\ responses' = IF s.kind = "respond" THEN responses + 1 ELSE responses
    /\ UNCHANGED <<config, route, user_query, order_id, asks_for_summary,
                   asks_for_cancellation_reason, gemini_outcome>>

\* requests.post returns or raises; the handler returns
GeminiReturns ==
    /\ pc = "gemini"
    /\ \E outcome \in GeminiOutcomes :
        /\ gemini_outcome' = outcome
        /\ response' = gemini_reply(outcome, failed_msg(route))
    /\ pc' = "done"
    /\ responses' = responses + 1
    /\ UNCHANGED <<config, route, user_query, order_id, asks_for_summary,
                   asks_for_cancellation_reason, order_outcome, order_summary,
                   gemini_prompt, calls>>

\* the response is sent and the handler's locals are gone
Finish ==
    /\ pc = "done"
    /\ pc' = "idle"
    /\ route' = "none"
    /\ user_query' = PyNone
    /\ order_id' = PyNone
    /\ asks_for_summary' = FALSE
    /\ asks_for_cancellation_reason' = FALSE
    /\ order_outcome' = NoOutcome
    /\ order_summary' = PyNone
    /\ gemini_prompt' = PyNone
    /\ gemini_outcome' = NoOutcome
    /\ response' = PyNone
    /\ calls' = <<>>
    /\ responses' = 0
    /\ UNCHANGED config

Next ==
    \/ SupportRequest
    \/ CalculateRequest
    \/ TextRequest
    \/ OrderProviderReturns
    \/ GeminiReturns
    \/ Finish

Spec == Init /\ [][Next]_vars

\* ------------------------------------------------------------ predicates of the properties

\* a /support request whose text held an order ID
SupportWithOrderId == route = "/support" /\ order_id # PyNone

\* the order-provider call ended without a decodable 2xx answer
OrderCallFailed == order_outcome \in Failures

\* the order-provider call was answered with JSON value j
OrderCallAnswered == order_outcome.kind = "ok"

\* the record carries both marks of a found order
RecordFound(j) ==
    /\ j.t = "dict"
    /\ "code" \in DOMAIN j.v /\ j.v["code"] = Num(200)
    /\ "message" \in DOMAIN j.v /\ j.v["message"] = Lit("Data found.")

CouldntFind(oid) ==
    Response(200, Obj("message" :> Fmt("I couldn't find details for order ID {order_id}. Please double-check the ID.", <<oid>>)))

IsJsonBody(r) == r # PyNone /\ r.body.t = "dict"
BodyHas(r, key) == IsJsonBody(r) /\ key \in DOMAIN r.body.v

\* the response is {error: ...} at status 500
IsError500(r) == IsJsonBody(r) /\ r.status = 500 /\ DOMAIN r.body.v = {"error"}

\* the digit runs of s, by their first index
RunStarts(s) == {i \in 1..Len(s) : IsDigit(s[i]) /\ (i = 1 \/ ~IsDigit(s[i - 1]))}
RunLast(s, i) ==
    CHOOSE j \in i..Len(s) :
        /\ \A k \in i..j : IsDigit(s[k])
        /\ (j = Len(s) \/ ~IsDigit(s[j + 1]))
LongRuns(s) == {i \in RunStarts(s) : RunLast(s, i) - i + 1 >= 7}
\* a run with no letter, digit or underscore next to it
Delimited(s, i) ==
    /\ (i = 1 \/ ~IsWord(s[i - 1]))
    /\ (RunLast(s, i) = Len(s) \/ ~IsWord(s[RunLast(s, i) + 1]))
DelimitedLongRuns(s) == {i \in LongRuns(s) : Delimited(s, i)}
RunAt(s, i) == Str(SubSeq(s, i, RunLast(s, i)))

\* the handler got as far as the extraction of line 193
Extracted == route = "/support" /\ calls # <<>>

Count(seq, x) == Cardinality({i \in 1..Len(seq) : seq[i] = x})

D7 == Str(ChunkD7)

\* ------------------------------------------------------------ properties

\* C1: when the order lookup of a /support request ends in a provider error,
\* the response differs from the response a business-level "not found" answer
\* gets for the same request, and the generation provider is not called.
C1_ProviderErrorDistinctFromNotFound ==
    (SupportWithOrderId /\ OrderCallFailed) =>
        /\ pc = "done"
        /\ "gemini" \notin {calls[i] : i \in 1..Len(calls)}
        /\ \A nf \in NotFoundRecords :
              response # after_order_summary(user_query, order_id, nf, asks_for_summary,
                                             asks_for_cancellation_reason).response

\* C2: a /support request with an order ID treats the record as found (raw
\* record, cancellation reason or generation call) only if the call was
\* answered with code = 200 and message = "Data found."; every other answered
\* payload gets the "couldn't find details" message and no generation call.
C2_FoundOnlyIfMarked ==
    (SupportWithOrderId /\ order_outcome # NoOutcome) =>
        /\ (\/ Count(calls, "gemini") > 0
            \/ (pc = "done" /\ response # CouldntFind(order_id)))
           => (OrderCallAnswered /\ RecordFound(order_outcome.json))
        /\ (OrderCallAnswered /\ ~RecordFound(order_outcome.json))
           => /\ pc = "done"
              /\ response = CouldntFind(order_id)
              /\ Count(calls, "gemini") = 0

\* C3: a /support request whose text is the greeting "hi" makes no outbound call.
C3_GreetingNoProviderCall ==
    (route = "/support" /\ user_query = Str(ChunkHi)) => calls = <<>>

\* C3 as amended: for the text "hi" the order provider is never called; once the
\* token and key tests are passed the generation provider is called, once, with
\* the general prompt, and the response is what that call's outcome gives.
C3_GreetingNoLookup ==
    (route = "/support" /\ user_query = Str(ChunkHi)) =>
        /\ order_id = PyNone
        /\ Count(calls, "order") = 0
        /\ (~token_rejected(APOLLO247_AUTH_TOKEN) /\ Truthy(GEMINI_API_KEY))
           => /\ calls = <<"gemini">>
              /\ gemini_prompt = Fmt("{system_instruction} Customer query: {user_query}",
                                     <<Str(ChunkHi)>>)
              /\ pc = "done" => (IsError500(response) \/ BodyHas(response, "result"))

C3_Witness ==
    /\ route = "/support" /\ user_query = Str(ChunkHi) /\ pc = "done"
    /\ calls = <<"gemini">>
    /\ response = Response(200, Obj("result" :> Lit("first answer")))

\* C4: with a token validate_auth_token rejects, every /support request is
\* answered with the configuration error at status 500 and no outbound call.
C4_InvalidTokenShortCircuits ==
    (route = "/support" /\ ~validate_auth_token(APOLLO247_AUTH_TOKEN)) =>
        /\ pc = "done"
        /\ response = JsonError(500, ConfigErrorMsg)
        /\ calls = <<>>

\* the case C5 is about: both keywords, an order ID, a found record, the response sent
BothKeywordsFound ==
    /\ SupportWithOrderId /\ pc = "done"
    /\ OrderCallAnswered /\ RecordFound(order_outcome.json)
    /\ detect_summary(user_query) /\ detect_cancellation_reason(user_query)

\* C5: with both keywords in the text and a found record, the response is the
\* cancellation-reason payload {cancellationReason, orderId}.
C5_CancellationBeforeSummary ==
    BothKeywordsFound =>
        /\ IsJsonBody(response)
        /\ DOMAIN response.body.v = {"cancellationReason", "orderId"}

\* C5 as amended: with both keywords in the text and a found record, the
\* response is the raw order record at status 200 ("summary" is tested first).
C5_SummaryBeforeCancellation ==
    BothKeywordsFound => response = Response(200, order_outcome.json)

C5_Witness ==
    /\ BothKeywordsFound
    /\ "cancellationReason" \in DOMAIN order_outcome.json.v
    /\ order_outcome.json.v["cancellationReason"] = Lit("Customer requested")

\* the case C6 is about
CancellationAsked ==
    /\ SupportWithOrderId /\ pc = "done"
    /\ OrderCallAnswered /\ RecordFound(order_outcome.json)
    /\ detect_cancellation_reason(user_query) /\ ~detect_summary(user_query)

\* C6: a cancellation-reason request (without "summary") whose record is found
\* with a non-null cancellationReason is answered with exactly
\* {cancellationReason: <the record's>, orderId: <the extracted ID>}, and the
\* generation provider is not called.
C6_CancellationRoundTrip ==
    (/\ CancellationAsked
     /\ "cancellationReason" \in DOMAIN order_outcome.json.v
     /\ order_outcome.json.v["cancellationReason"] # PyNone) =>
        /\ response = Response(200,
                Obj(("cancellationReason" :> order_outcome.json.v["cancellationReason"])
                    @@ ("orderId" :> order_id)))
        /\ order_id = RunAt(user_query.v, Min(DelimitedLongRuns(user_query.v)))
        /\ calls = <<"order">>

\* Scenario A
C6_Witness ==
    /\ user_query = Str(ScenarioA) /\ pc = "done"
    /\ order_outcome = Ok(Obj(("code" :> Num(200)) @@ ("message" :> Lit("Data found."))
                              @@ ("cancellationReason" :> Lit("Customer requested"))))
    /\ response = Response(200, Obj(("cancellationReason" :> Lit("Customer requested"))
                                    @@ ("orderId" :> D7)))

\* C7: a cancellation-reason request whose record is found with a null or
\* absent cancellationReason is answered with a "none found" message, not with
\* a payload that carries a cancellationReason value.
C7_NoneFoundMessage ==
    (/\ CancellationAsked
     /\ Get(order_outcome.json, "cancellationReason", PyNone) = PyNone) =>
        ~BodyHas(response, "cancellationReason")

\* the generation provider's answer holds a non-empty candidates list
HasCandidates(o) ==
    /\ o.kind = "ok" /\ o.json.t = "dict"
    /\ "candidates" \in DOMAIN o.json.v
    /\ o.json.v["candidates"].t = "list"
    /\ o.json.v["candidates"].v # <<>>

\* C8: after a generation call, at every endpoint, a failed call or an answer
\* with no or an empty candidates list gives {error} at 500; {result} is given
\* only for a non-empty candidates list and is the first candidate's text.
C8_GenerationFailureIsError ==
    (pc = "done" /\ gemini_outcome # NoOutcome) =>
        /\ IsError500(response) \/ (IsJsonBody(response) /\ response.status = 200
                                    /\ DOMAIN response.body.v = {"result"})
        /\ ~HasCandidates(gemini_outcome) => IsError500(response)
        /\ BodyHas(response, "result") =>
              /\ HasCandidates(gemini_outcome)
              /\ response.body.v["result"] =
                   gemini_outcome.json.v["candidates"].v[1].v["content"].v["parts"].v[1].v["text"]

C8_Witness ==
    /\ pc = "done" /\ SupportWithOrderId
    /\ gemini_outcome = Ok(Obj("candidates" :>
            Arr(<<Candidate("first answer"), Candidate("second answer")>>)))
    /\ response = Response(200, Obj("result" :> Lit("first answer")))

\* C9: if the text holds a run of 7 or more digits the order ID is the first
\* such run; if every digit run has at most 6 digits no order ID is extracted
\* and the general generation branch is taken.
C9_FirstLongRun ==
    Extracted =>
        LET s == user_query.v
        IN  /\ LongRuns(s) # {} => order_id = RunAt(s, Min(LongRuns(s)))
            /\ LongRuns(s) = {} => (order_id = PyNone /\ calls = <<"gemini">>)

\* C9 as amended: if the text holds a run of 7 or more digits with no letter,
\* digit or underscore on either side, the order ID is the first such run, in
\* full; otherwise (every run shorter, or next to a letter or underscore) no
\* order ID is extracted and the general generation branch is taken.
C9_FirstDelimitedLongRun ==
    Extracted =>
        LET s == user_query.v
        IN  /\ DelimitedLongRuns(s) # {}
               => (order_id = RunAt(s, Min(DelimitedLongRuns(s))) /\ calls[1] = "order")
            /\ DelimitedLongRuns(s) = {}
               => (order_id = PyNone /\ calls = <<"gemini">>
                   /\ gemini_prompt = Fmt("{system_instruction} Customer query: {user_query}",
                                          <<user_query>>))

\* of two delimited runs, of 7 and of 8 digits, the first is extracted
C9_Witness ==
    /\ Extracted
    /\ user_query = Str(ChunkD7 \o ChunkSpace \o ChunkD8)
    /\ order_id = Str(ChunkD7)

\* C10: in one /support request each provider is called at most once; with an
\* order ID, the generation provider is called only after the order provider
\* answered with a found record and only if the text asks for neither
\* "summary" nor "cancellation reason"; a finished request has sent exactly one
\* response, an unfinished one none.
C10_NoRetriesFixedOrder ==
    /\ Count(calls, "order") <= 1
    /\ Count(calls, "gemini") <= 1
    /\ pc = "done" => responses = 1
    /\ pc # "done" => responses = 0
    /\ pc \in {"order", "gemini"} => calls[Len(calls)] = pc
    /\ (SupportWithOrderId /\ Count(calls, "gemini") > 0) =>
          /\ calls = <<"order", "gemini">>
          /\ OrderCallAnswered /\ RecordFound(order_outcome.json)
          /\ ~detect_summary(user_query)
          /\ ~detect_cancellation_reason(user_query)

C10_Witness ==
    /\ SupportWithOrderId /\ pc = "done" /\ responses = 1
    /\ calls = <<"order", "gemini">>
    /\ gemini_outcome \in Failures
====
